---- MODULE Spec2Model ----
(***************************************************************************)
(* A model of notes.py: Note (pitch identity of a spelled note),           *)
(* NoteCollection (ordered, deduplicating list of notes), Chord (2 or 3    *)
(* notes and a name) and Chords (the chord registry).                      *)
(*                                                                         *)
(* A Python str is modelled as a sequence of one-character strings, so     *)
(* that indexing, capitalize() and comparison are computed, not assumed.   *)
(* A pitch index is counted in half steps: the code's position 0.5 is 1.   *)
(***************************************************************************)
EXTENDS Integers, Sequences, FiniteSets, TLC

VARIABLES
    notes,    \* NoteCollection.notes: the list of Note objects
    chords,   \* Chords.chords: the list of registered Chord objects
    chord,    \* the Chord object built by the last Chord(...) call, if any
    op,       \* the last call made: its name
    args,     \* the last call made: its arguments
    err,      \* the exception the last call raised, or "none"
    ret       \* the value the last call returned

vars == <<notes, chords, chord, op, args, err, ret>>

----------------------------------------------------------------------------
(* Bounds of the model. *)

\* the collection is not grown beyond MaxNotes notes
MaxNotes == 3

\* the registry is not grown beyond MaxChords chords
MaxChords == 2

----------------------------------------------------------------------------
(* Python strings. *)

\* string.ascii_uppercase
ascii_uppercase ==
    << "A", "B", "C", "D", "E", "F", "G", "H", "I", "J", "K", "L", "M",
       "N", "O", "P", "Q", "R", "S", "T", "U", "V", "W", "X", "Y", "Z" >>

ascii_lowercase ==
    << "a", "b", "c", "d", "e", "f", "g", "h", "i", "j", "k", "l", "m",
       "n", "o", "p", "q", "r", "s", "t", "u", "v", "w", "x", "y", "z" >>

\* str.find for a one-character needle, 0-based, -1 when absent
Find(s, c) ==
    LET hits == {i \in 1..Len(s) : s[i] = c}
    IN  IF hits = {} THEN -1 ELSE (CHOOSE i \in hits : \A j \in hits : i <= j) - 1

Upper(c) ==
    LET k == Find(ascii_lowercase, c) IN IF k >= 0 THEN ascii_uppercase[k + 1] ELSE c

Lower(c) ==
    LET k == Find(ascii_uppercase, c) IN IF k >= 0 THEN ascii_lowercase[k + 1] ELSE c

\* str.capitalize(): first character upper-cased, the rest lower-cased
Capitalize(s) ==
    [i \in 1..Len(s) |-> IF i = 1 THEN Upper(s[i]) ELSE Lower(s[i])]

\* the code point of a character ("#" sorts before the letters, upper before lower case)
Ord(c) ==
    LET u == Find(ascii_uppercase, c)
        l == Find(ascii_lowercase, c)
    IN  IF u >= 0 THEN 65 + u ELSE IF l >= 0 THEN 97 + l ELSE 35

\* s < t for Python strings: lexicographic by code point, a proper prefix is smaller
RECURSIVE StrLess(_, _)
StrLess(s, t) ==
    IF t = <<>> THEN FALSE
    ELSE IF s = <<>> THEN TRUE
    ELSE IF Ord(Head(s)) # Ord(Head(t)) THEN Ord(Head(s)) < Ord(Head(t))
    ELSE StrLess(Tail(s), Tail(t))

\* `s in t` for Python strings: s occurs in t as a substring
StrIn(s, t) ==
    \E k \in 0..(Len(t) - Len(s)) : \A i \in 1..Len(s) : t[k + i] = s[i]

----------------------------------------------------------------------------
(* class Note *)

\* the result of a call that returns None
None == [kind |-> "None", val |-> <<>>]

\* a Note.__init__ that stores the alteration in .sharpness as well
NoteParsed(raw) ==
    [note |-> Capitalize(raw), sharpness |-> SubSeq(Capitalize(raw), 2, Len(raw))]

\* Note(note): the whole capitalised string is kept in .note, .sharpness is ""
Note(raw) == [note |-> Capitalize(raw), sharpness |-> <<>>]

\* a get_index without the wrap of a negative position
get_index_nowrap(n) ==
    LET position == 2 * Find(ascii_uppercase, n.note[1])
    IN  IF Len(n.note) > 1
        THEN IF n.note[2] = "#" THEN position + 1
             ELSE IF n.note[2] = "b" THEN position - 1
             ELSE position
        ELSE position

\* a get_index that moves by a whole letter instead of half a letter
get_index_wholestep(n) ==
    LET position == 2 * Find(ascii_uppercase, n.note[1])
        altered  == IF Len(n.note) > 1
                    THEN IF n.note[2] = "#" THEN position + 2
                         ELSE IF n.note[2] = "b" THEN position - 2
                         ELSE position
                    ELSE position
    IN  IF Len(n.note) > 1 /\ altered < 0 THEN altered + 52 ELSE altered

\* Note.get_index, in half steps
get_index(n) ==
    LET position == 2 * Find(ascii_uppercase, n.note[1])
        altered  == IF Len(n.note) > 1
                    THEN IF n.note[2] = "#" THEN position + 1
                         ELSE IF n.note[2] = "b" THEN position - 1
                         ELSE position
                    ELSE position
    IN  IF Len(n.note) > 1 /\ altered < 0 THEN altered + 52 ELSE altered

\* a Note.__eq__ that compares spellings instead of pitch indexes
NoteEqBySpelling(self, other) ==
    self.note = other.note /\ StrIn(self.sharpness, other.sharpness)

\* Note.__eq__(self, other), both Notes
NoteEq(self, other) ==
    get_index(self) = get_index(other) /\ StrIn(self.sharpness, other.sharpness)

\* a Note.__hash__ derived from the pitch index
NoteHashByPitch(n) == get_index(n)

\* Note.__hash__: the hash of the pair (note, sharpness); two hashes are equal
\* exactly when the pairs are
NoteHash(n) == <<n.note, n.sharpness>>

\* Note.__repr__ without the "<Note: >" frame, also the f-string of Chords.get
Display(n) == n.note \o n.sharpness

\* the raw strings of all notes: a letter A-Z and an alteration
AllNoteInputs ==
    {<<ascii_uppercase[k]>> \o a : k \in 1..Len(ascii_uppercase), a \in {<<>>, <<"#">>, <<"b">>}}

\* Note(args[1]) == Note(args[2])
Note_eq ==
    /\ ret' = [kind |-> "bool", val |-> << NoteEq(Note(args[1]), Note(args[2])) >>]
    /\ op' = "Note.__eq__"
    /\ err' = "none"
    /\ UNCHANGED <<notes, chords, chord, args>>

\* Note(args[1]).get_index(), Note(args[2]).get_index()
Note_get_index ==
    /\ ret' = [kind |-> "index",
               val  |-> << get_index(Note(args[1])), get_index(Note(args[2])) >>]
    /\ op' = "Note.get_index"
    /\ err' = "none"
    /\ UNCHANGED <<notes, chords, chord, args>>

----------------------------------------------------------------------------
(* class NoteCollection *)

\* `note in self.notes` for a list: some item equals note
ListContains(list, n) == \E i \in 1..Len(list) : NoteEq(list[i], n)

\* list.pop(i)
ListPop(list, i) == [k \in 1..(Len(list) - 1) |-> IF k < i THEN list[k] ELSE list[k + 1]]

\* an add without the membership test
CollectionAddAlways(list, n) == Append(list, n)

\* NoteCollection.add: the list after add(note)
CollectionAdd(list, n) == IF ~ListContains(list, n) THEN Append(list, n) ELSE list

\* a pop that looks the entry up by its spelling
PopIndexBySpelling(list, name) ==
    IF \E i \in 1..Len(list) : list[i].note = Note(name).note
    THEN CHOOSE i \in 1..Len(list) : list[i].note = Note(name).note
    ELSE 0

\* a pop that falls back to the last entry (list.pop()) when no entry is equal
PopIndexOrLast(list, name) ==
    IF \E i \in 1..Len(list) : NoteEq(list[i], Note(name))
    THEN CHOOSE i \in 1..Len(list) :
            /\ NoteEq(list[i], Note(name))
            /\ \A j \in 1..(i - 1) : ~NoteEq(list[j], Note(name))
    ELSE Len(list)

\* NoteCollection.pop: the index of the first entry equal to Note(name), 0 when none
PopIndex(list, name) ==
    LET hits == {i \in 1..Len(list) : NoteEq(list[i], Note(name))}
    IN  IF hits = {} THEN 0 ELSE CHOOSE i \in hits : \A j \in hits : i <= j

\* an extract that returns the list object it has just cleared
ExtractedAfterClear(list) == <<>>

\* NoteCollection.extract: the list that is returned (a copy made before clear())
Extracted(list) == list

\* the raw strings the collection's callers pass (the driver's Note('a') is lower case)
NoteLetters == {"a", "B", "Z"}

Alterations == {<<>>, <<"#">>, <<"b">>}

NoteInputs == {<<l>> \o a : l \in NoteLetters, a \in Alterations}

add(raw) ==
    /\ Len(notes) < MaxNotes \/ ListContains(notes, Note(raw))
    /\ notes' = CollectionAdd(notes, Note(raw))
    /\ op' = "add"
    /\ args' = <<raw>>
    /\ err' = "none"
    /\ ret' = None
    /\ UNCHANGED <<chords, chord>>

pop(raw) ==
    /\ \E i \in {PopIndex(notes, raw)} :
           IF i > 0
           THEN /\ ret' = [kind |-> "Note", val |-> <<notes[i]>>]
                /\ notes' = ListPop(notes, i)
           ELSE /\ ret' = None
                /\ notes' = notes
    /\ op' = "pop"
    /\ args' = <<raw>>
    /\ err' = "none"
    /\ UNCHANGED <<chords, chord>>

extract ==
    /\ ret' = [kind |-> "list", val |-> Extracted(notes)]
    /\ notes' = <<>>
    /\ op' = "extract"
    /\ args' = <<>>
    /\ err' = "none"
    /\ UNCHANGED <<chords, chord>>

----------------------------------------------------------------------------
(* Python sets of Notes: set(list) and set == set. *)

\* x is found in the set s: an element with the same hash that equals x
PySetContains(s, x) == \E e \in s : NoteHash(e) = NoteHash(x) /\ NoteEq(e, x)

\* set(list): the elements are inserted in list order, an element already found is skipped
RECURSIVE PySet(_)
PySet(list) ==
    IF list = <<>> THEN {}
    ELSE LET front == PySet(SubSeq(list, 1, Len(list) - 1))
             x     == list[Len(list)]
         IN  IF PySetContains(front, x) THEN front ELSE front \cup {x}

\* s == t for sets: the same size, and every element of s is found in t
PySetEq(s, t) ==
    /\ Cardinality(s) = Cardinality(t)
    /\ \A x \in s : PySetContains(t, x)

----------------------------------------------------------------------------
(* class Chord *)

\* the sort key (x.note, x.sharpness) of a is smaller than that of b
KeyLess(a, b) ==
    \/ StrLess(a.note, b.note)
    \/ a.note = b.note /\ StrLess(a.sharpness, b.sharpness)

\* a sorted() that was left out: the list as it is
SortedNot(list) == list

\* sorted(list, key=...): stable, ascending
RECURSIVE Sorted(_)
Sorted(list) ==
    IF list = <<>> THEN <<>>
    ELSE LET front == Sorted(SubSeq(list, 1, Len(list) - 1))
             x     == list[Len(list)]
             k     == Cardinality({i \in 1..Len(front) : ~KeyLess(x, front[i])})
         IN  SubSeq(front, 1, k) \o <<x>> \o SubSeq(front, k + 1, Len(front))

\* note_names = [note.note for note in notes]
NoteNames(list) == [i \in 1..Len(list) |-> list[i].note]

\* set(list) for a list of strings
StrSet(list) == {list[i] : i \in 1..Len(list)}

\* a test that only looks for the chord name among the note names
DuplicateNoteNamesNameOnly(list, chord_name) == chord_name \in StrSet(NoteNames(list))

\* a test that only compares the note names with each other
DuplicateNoteNamesNotesOnly(list, chord_name) ==
    Cardinality(StrSet(NoteNames(list))) # Len(list)

\* a test that compares first letters: of the notes, and of the chord name
DuplicateNoteNamesByLetter(list, chord_name) ==
    \/ Cardinality({list[i].note[1] : i \in 1..Len(list)}) # Len(list)
    \/ chord_name[1] \in {list[i].note[1] : i \in 1..Len(list)}

\* the test of Chord.__init__ that raises DuplicateNoteNamesException
DuplicateNoteNames(list, chord_name) ==
    \/ Cardinality(StrSet(NoteNames(list))) # Len(list)
    \/ Cardinality(StrSet(NoteNames(list) \o <<chord_name>>)) # Len(NoteNames(list)) + 1

\* the Chord object that Chord.__init__ builds from its 2 or 3 notes
Chord(list, chord_name) == [notes |-> Sorted(list), chord_name |-> chord_name]

\* a Chord.__eq__ that tests inclusion (<=) instead of equality of the sets
ChordEqSubset(self, other) ==
    \A x \in PySet(self.notes) : PySetContains(PySet(other.notes), x)

\* Chord.__eq__(self, other), both Chords
ChordEq(self, other) == PySetEq(PySet(self.notes), PySet(other.notes))

----------------------------------------------------------------------------
(* NoteCollection.get_content *)

\* the loop that keeps the first of each group of equal notes
RECURSIVE Unique(_)
Unique(list) ==
    IF list = <<>> THEN <<>>
    ELSE LET front == Unique(SubSeq(list, 1, Len(list) - 1))
             x     == list[Len(list)]
         IN  IF ~ListContains(front, x) THEN Append(front, x) ELSE front

\* the characters str.strip() removes
Whitespace == {" ", "\n"}

\* str.strip(): leading and trailing whitespace removed
Strip(s) ==
    LET solid == {i \in 1..Len(s) : s[i] \notin Whitespace}
    IN  IF solid = {} THEN <<>>
        ELSE SubSeq(s, CHOOSE i \in solid : \A j \in solid : i <= j,
                       CHOOSE i \in solid : \A j \in solid : j <= i)

\* the lines "  * {note.note}{note.sharpness}\n" of the notes, one after the other
RECURSIVE NoteLines(_)
NoteLines(list) ==
    IF list = <<>> THEN <<>>
    ELSE <<" ", " ", "*", " ">> \o Display(Head(list)) \o <<"\n">> \o NoteLines(Tail(list))

\* NoteCollection.get_content: the string that is returned
GetContent(list) ==
    LET content      == <<"N", "o", "t", "e", "s", ":", "\n">>
        unique_notes == Unique(Sorted(list))
    IN  IF unique_notes = <<>>
        THEN content \o <<" ", " ", "E", "m", "p", "t", "y", ".">>
        ELSE Strip(content \o NoteLines(unique_notes))

get_content ==
    /\ ret' = [kind |-> "str", val |-> GetContent(notes)]
    /\ op' = "get_content"
    /\ args' = <<>>
    /\ err' = "none"
    /\ UNCHANGED <<notes, chords, chord>>

----------------------------------------------------------------------------
(* class Chords *)

\* an overlap test that never finds an overlap
OverlapsNever(existing_chord, c) == FALSE

\* an overlap test that also compares the chord names
OverlapsWithName(existing_chord, c) ==
    /\ PySetEq(PySet(existing_chord.notes), PySet(c.notes))
    /\ existing_chord.chord_name = c.chord_name

\* an overlap test that compares the sorted note lists (list == list uses Note.__eq__)
OverlapsAsLists(existing_chord, c) ==
    /\ Len(existing_chord.notes) = Len(c.notes)
    /\ \A i \in 1..Len(c.notes) : NoteEq(existing_chord.notes[i], c.notes[i])

\* the test of Chords.add that raises ChordOverlapException
Overlaps(existing_chord, c) == PySetEq(PySet(existing_chord.notes), PySet(c.notes))

\* the set of the f-strings note.note + (note.sharpness or '') of a list of notes
NameSet(list) == {Display(list[i]) : i \in 1..Len(list)}

\* a match that compares the names in argument order
MatchesInOrder(c, input_notes) ==
    /\ Len(input_notes) = Len(c.notes)
    /\ \A i \in 1..Len(c.notes) : Display(input_notes[i]) = Display(c.notes[i])

\* a match on sets of Notes, that is, by pitch index
MatchesByPitch(c, input_notes) ==
    {get_index(input_notes[i]) : i \in 1..Len(input_notes)}
        = {get_index(c.notes[i]) : i \in 1..Len(c.notes)}

\* chord matches the query of Chords.get
Matches(c, input_notes) == NameSet(input_notes) = NameSet(c.notes)

\* Chords.get: the first registered chord that matches, or None
ChordsGet(list, input_notes) ==
    LET hits == {i \in 1..Len(list) : Matches(list[i], input_notes)}
    IN  IF hits = {} THEN None
        ELSE [kind |-> "Chord", val |-> << list[CHOOSE i \in hits : \A j \in hits : i <= j] >>]

\* the raw note strings and chord names the registry's callers pass
ChordNoteInputs == { <<"A">>, <<"a", "#">>, <<"B", "b">> }

ChordNames == { <<"A">>, <<"A", "m">> }

\* 2 or 3 note arguments (the third one is optional)
NoteArgs == { <<x, y>> : x \in ChordNoteInputs, y \in ChordNoteInputs }
            \cup { <<x, y, z>> : x \in ChordNoteInputs, y \in ChordNoteInputs, z \in ChordNoteInputs }

\* [Note(r) for r in raws]
Notes(raws) == [i \in 1..Len(raws) |-> Note(raws[i])]

\* chord = Chord(Note(r1), Note(r2), chord_name[, Note(r3)])
Chord_init(raws, chord_name) ==
    /\ IF DuplicateNoteNames(Notes(raws), chord_name)
       THEN /\ err' = "DuplicateNoteNamesException"
            /\ chord' = None
       ELSE /\ err' = "none"
            /\ chord' = [kind |-> "Chord", val |-> << Chord(Notes(raws), chord_name) >>]
    /\ op' = "Chord"
    /\ args' = <<raws, chord_name>>
    /\ ret' = None
    /\ UNCHANGED <<notes, chords>>

\* chords.add(chord)
Chords_add ==
    /\ chord # None
    /\ Len(chords) < MaxChords \/ \E i \in 1..Len(chords) : Overlaps(chords[i], chord.val[1])
    /\ IF \E i \in 1..Len(chords) : Overlaps(chords[i], chord.val[1])
       THEN /\ err' = "ChordOverlapException"
            /\ chords' = chords
       ELSE /\ err' = "none"
            /\ chords' = Append(chords, chord.val[1])
    /\ op' = "Chords.add"
    /\ args' = <<>>
    /\ ret' = None
    /\ UNCHANGED <<notes, chord>>

\* chords.get(Note(r1), Note(r2)[, Note(r3)])
Chords_get(raws) ==
    /\ ret' = ChordsGet(chords, Notes(raws))
    /\ op' = "Chords.get"
    /\ args' = <<raws>>
    /\ err' = "none"
    /\ UNCHANGED <<notes, chords, chord>>

----------------------------------------------------------------------------
(* The specifications. *)

Init ==
    /\ notes = <<>>
    /\ chords = <<>>
    /\ chord = None
    /\ op = "init"
    /\ args = <<>>
    /\ err = "none"
    /\ ret = None

\* a caller of one NoteCollection
Next ==
    \/ \E raw \in NoteInputs : add(raw)
    \/ \E raw \in NoteInputs : pop(raw)
    \/ extract
    \/ get_content

Spec == Init /\ [][Next]_vars

\* a caller that builds chords, registers them in one Chords registry and queries it
ChordNext ==
    \/ \E raws \in NoteArgs, chord_name \in ChordNames : Chord_init(raws, chord_name)
    \/ Chords_add
    \/ \E raws \in NoteArgs : Chords_get(raws)

ChordSpec == Init /\ [][ChordNext]_vars

\* two note strings, before any call
NoteInit ==
    /\ notes = <<>>
    /\ chords = <<>>
    /\ chord = None
    /\ op = "init"
    /\ args \in {<<x, y>> : x \in AllNoteInputs, y \in AllNoteInputs}
    /\ err = "none"
    /\ ret = None

\* a caller that builds two Notes and compares them or asks for their indexes
NoteNext ==
    \/ Note_eq
    \/ Note_get_index

NoteSpec == NoteInit /\ [][NoteNext]_vars

----------------------------------------------------------------------------
(* NoteCollection: the claims. *)

\* some entry of the collection has the pitch index of Note(raw)
HasPitch(list, raw) == \E i \in 1..Len(list) : get_index(list[i]) = get_index(Note(raw))

\* the first position of the collection whose entry has the pitch index of Note(raw)
FirstPitch(list, raw) ==
    CHOOSE i \in 1..Len(list) :
        /\ get_index(list[i]) = get_index(Note(raw))
        /\ \A j \in 1..(i - 1) : get_index(list[j]) # get_index(Note(raw))

\* some entry of the collection is spelled like Note(raw)
HasSpelling(list, raw) == \E i \in 1..Len(list) : list[i].note = Note(raw).note

\* C1: after any sequence of add, pop and extract calls no two entries of the
\* collection are equal Notes, that is, no two entries have the same pitch index.
C1_NoEqualEntries ==
    \A i, j \in 1..Len(notes) :
        i # j => /\ get_index(notes[i]) # get_index(notes[j])
                 /\ ~NoteEq(notes[i], notes[j])

\* an add of an enharmonic respelling of a stored note has just been refused,
\* in a collection of at least two notes
C1_Witness ==
    /\ op = "add"
    /\ Len(notes) >= 2
    /\ HasPitch(notes, args[1])
    /\ ~HasSpelling(notes, args[1])

\* C5: a pop(name) that finds an entry equal to Note(name) removes exactly the
\* first entry with the probe's pitch index, returns that stored entry and keeps
\* the other entries in their order.
C5_PopRemovesFirstEqual ==
    [][(op' = "pop" /\ HasPitch(notes, args'[1])) =>
        \A i \in {FirstPitch(notes, args'[1])} :
            /\ ret' = [kind |-> "Note", val |-> <<notes[i]>>]
            /\ Len(notes') = Len(notes) - 1
            /\ notes' = SubSeq(notes, 1, i - 1) \o SubSeq(notes, i + 1, Len(notes))]_vars

\* pop('Bb') has just removed and returned a stored A#, other notes remain
C5_Witness ==
    /\ op = "pop"
    /\ args = << <<"B", "b">> >>
    /\ ret = [kind |-> "Note", val |-> << Note(<<"A", "#">>) >>]
    /\ Len(notes) >= 1

\* C8: extract returns the collection's notes in their order and leaves the
\* collection empty, as a new collection is; an extract right after an extract
\* returns the empty list.
C8_ExtractDrains ==
    [][op' = "extract" =>
        /\ ret' = [kind |-> "list", val |-> notes]
        /\ notes' = <<>>
        /\ (op = "extract" => ret'.val = <<>>)]_vars

\* an extract has just returned at least two notes
C8_Witness ==
    /\ op = "extract"
    /\ Len(ret.val) >= 2
    /\ notes = <<>>

\* C9: add of a Note whose pitch index an entry already has leaves the list as
\* it is; add of any other Note appends it as the last entry.
C9_AddIdempotent ==
    [][op' = "add" =>
        IF HasPitch(notes, args'[1])
        THEN notes' = notes
        ELSE notes' = notes \o << Note(args'[1]) >>]_vars

\* add('Z#') has just been refused by a collection that holds Ab
C9_Witness ==
    /\ op = "add"
    /\ args = << <<"Z", "#">> >>
    /\ HasSpelling(notes, <<"A", "b">>)
    /\ ~HasSpelling(notes, <<"Z", "#">>)

\* C11: a pop(name) that finds no entry with the pitch index of Note(name)
\* returns None and leaves the collection as it was.
C11_PopMissUnchanged ==
    [][(op' = "pop" /\ ~HasPitch(notes, args'[1])) =>
        (ret' = None /\ notes' = notes)]_vars

\* a pop has just returned None on a collection of at least two notes
C11_Witness ==
    /\ op = "pop"
    /\ ret = None
    /\ Len(notes) >= 2
    /\ ~HasPitch(notes, args[1])

\* the place of a note in the order by letter, then alteration: "" < "#" < "b"
Rank(n) ==
    3 * ((CHOOSE k \in 1..Len(ascii_uppercase) : ascii_uppercase[k] = n.note[1]) - 1)
        + (IF Len(n.note) = 1 THEN 0 ELSE IF n.note[2] = "#" THEN 1 ELSE 2)

\* the notes of a list, each once, in ascending order of Rank
ByRank(list) ==
    CHOOSE s \in {[i \in 1..Len(list) |-> list[f[i]]] : f \in Permutations(1..Len(list))} :
        \A i, j \in 1..Len(s) : i < j => Rank(s[i]) < Rank(s[j])

\* the listing of a list of notes: "\n  * " and the note, for each note in turn
RECURSIVE Listing(_)
Listing(list) ==
    IF list = <<>> THEN <<>>
    ELSE <<"\n", " ", " ", "*", " ">> \o Head(list).note \o Head(list).sharpness
            \o Listing(Tail(list))

----------------------------------------------------------------------------
(* Chord and Chords: the claims. *)

\* the capitalised note strings of a list of raw note strings, as a set
Spellings(raws) == {Capitalize(raws[i]) : i \in 1..Len(raws)}

\* the note strings of a chord, as a set
ChordSpellings(c) == {c.notes[i].note : i \in 1..Len(c.notes)}

\* the rearrangements of a list of arguments
Rearranged(raws) ==
    {[i \in 1..Len(raws) |-> raws[f[i]]] : f \in Permutations(1..Len(raws))}

\* the pairs of argument lists <<q, p>> where p rearranges q
QueryPairs == {<<q, p>> : q \in NoteArgs, p \in NoteArgs} \cap
              UNION {{<<q, p>> : p \in Rearranged(q)} : q \in NoteArgs}

\* the Notes built from each argument list
QueryNotes == [q \in NoteArgs |-> Notes(q)]

\* the argument lists by their set of spellings
QueriesSpelled == [q \in NoteArgs |-> Spellings(q)]

\* every Chord object there is: the one just built and the registered ones
AllChords ==
    {chords[i] : i \in 1..Len(chords)}
        \cup (IF chord = None THEN {} ELSE {chord.val[1]})

\* C2: no two entries of the registry are equal Chords.
C2_NoEqualChords ==
    \A i, j \in 1..Len(chords) : i # j => ~ChordEq(chords[i], chords[j])

\* an add has just failed on a registry of at least two chords
C2_Witness ==
    /\ op = "Chords.add"
    /\ err = "ChordOverlapException"
    /\ Len(chords) >= 2

\* C3: get returns the same result for every order of its 2 or 3 arguments; the
\* notes of a registered chord in any order return that chord; a combination of
\* note strings that no registered chord has returns None.
C3_GetOrderIndependent ==
    /\ \A qp \in QueryPairs :
          ChordsGet(chords, QueryNotes[qp[2]]) = ChordsGet(chords, QueryNotes[qp[1]])
    /\ \A i \in 1..Len(chords) : \A q \in NoteArgs :
          (Len(q) = Len(chords[i].notes) /\ QueriesSpelled[q] = ChordSpellings(chords[i]))
              => ChordsGet(chords, QueryNotes[q]) = [kind |-> "Chord", val |-> <<chords[i]>>]
    /\ \A q \in NoteArgs :
          (\A i \in 1..Len(chords) : QueriesSpelled[q] # ChordSpellings(chords[i]))
              => ChordsGet(chords, QueryNotes[q]) = None

\* get has just returned a 3-note chord for arguments given in another order
\* than the chord stores them
C3_Witness ==
    /\ op = "Chords.get"
    /\ ret.kind = "Chord"
    /\ Len(args[1]) = 3
    /\ Notes(args[1]) # ret.val[1].notes
    /\ Len(ret.val[1].notes) = 3

\* C4 as claimed: construction fails whenever two notes share their letter.
C4_SameLetterFails ==
    (op = "Chord" /\ \E i, j \in 1..Len(args[1]) :
                        i # j /\ Capitalize(args[1][i])[1] = Capitalize(args[1][j])[1])
        => err = "DuplicateNoteNamesException"

\* C4 as amended: construction fails whenever two notes have the same capitalised note
\* string (letter and alteration), and no Chord holds two notes with the same
\* note string.
C4_SameSpellingFails ==
    /\ (op = "Chord" /\ \E i, j \in 1..Len(args[1]) :
                            i # j /\ Capitalize(args[1][i]) = Capitalize(args[1][j]))
          => (err = "DuplicateNoteNamesException" /\ chord = None)
    /\ \A c \in AllChords : \A i, j \in 1..Len(c.notes) :
          i # j => c.notes[i].note # c.notes[j].note

\* a construction from two A# notes and a name that is no note name has just failed
C4_Witness ==
    /\ op = "Chord"
    /\ err = "DuplicateNoteNamesException"
    /\ args = << << <<"a", "#">>, <<"a", "#">> >>, <<"A", "m">> >>

\* C6: an add of a chord equal to a registered chord (whatever its name) raises
\* ChordOverlapException and leaves the registry as it was; any other add appends
\* the chord as the last entry.
C6_AddOverlapOrAppend ==
    [][op' = "Chords.add" =>
        IF \E i \in 1..Len(chords) : ChordEq(chords[i], chord.val[1])
        THEN err' = "ChordOverlapException" /\ chords' = chords
        ELSE err' = "none" /\ chords' = chords \o << chord.val[1] >>]_vars

\* an add has just failed against a registered chord of the same notes and
\* another name
C6_Witness ==
    /\ op = "Chords.add"
    /\ err = "ChordOverlapException"
    /\ \E i \in 1..Len(chords) :
          /\ ChordSpellings(chords[i]) = ChordSpellings(chord.val[1])
          /\ chords[i].chord_name # chord.val[1].chord_name

\* the pitch indexes of a list of raw note strings, as a set
Pitches(raws) == {get_index(Note(raws[i])) : i \in 1..Len(raws)}

\* C7: get returns a chord only when the chord's set of display strings is the
\* query's, and returns None when no registered chord has the query's set of
\* display strings, also when a registered chord has the query's pitches.
C7_GetMatchesSpelling ==
    op = "Chords.get" =>
        /\ ret.kind = "Chord" =>
              /\ ret.val[1] \in {chords[i] : i \in 1..Len(chords)}
              /\ ChordSpellings(ret.val[1]) = Spellings(args[1])
        /\ (\A i \in 1..Len(chords) : ChordSpellings(chords[i]) # Spellings(args[1]))
              => ret = None

\* get has just returned None for a query that respells a registered chord
C7_Witness ==
    /\ op = "Chords.get"
    /\ ret = None
    /\ \E i \in 1..Len(chords) :
          /\ Len(chords[i].notes) = Len(args[1])
          /\ {get_index(chords[i].notes[k]) : k \in 1..Len(chords[i].notes)} = Pitches(args[1])
          /\ ChordSpellings(chords[i]) # Spellings(args[1])

\* C10 as claimed: construction fails whenever the chord name starts with the
\* letter of one of the notes.
C10_NameLetterFails ==
    (op = "Chord" /\ \E i \in 1..Len(args[1]) : args[2][1] = Capitalize(args[1][i])[1])
        => err = "DuplicateNoteNamesException"

\* C10 as amended: construction fails whenever the chord name is the capitalised
\* note string of one of the notes, and no Chord is named like one of its notes.
C10_NameEqualsNoteFails ==
    /\ (op = "Chord" /\ \E i \in 1..Len(args[1]) : args[2] = Capitalize(args[1][i]))
          => (err = "DuplicateNoteNamesException" /\ chord = None)
    /\ \A c \in AllChords : \A i \in 1..Len(c.notes) : c.chord_name # c.notes[i].note

\* a construction from the distinct notes A and Bb with the name A has just failed
C10_Witness ==
    /\ op = "Chord"
    /\ err = "DuplicateNoteNamesException"
    /\ args = << << <<"A">>, <<"B", "b">> >>, <<"A">> >>
\* the Chords that Chord.__init__ builds, each with the set of its arguments'
\* note strings
Buildable ==
    {<<Spellings(b[1]), Chord(Notes(b[1]), b[2])>> :
        b \in {a \in NoteArgs \X ChordNames : ~DuplicateNoteNames(Notes(a[1]), a[2])}}

\* C14: Chords built from the same notes are equal whatever the order of the
\* note arguments and whatever their names; Chords whose sets of notes differ,
\* a 2-note chord and a 3-note chord containing it included, are not equal.
C14_ChordEqIsNoteSetEq ==
    /\ \A c \in AllChords : \A d \in AllChords :
          ChordEq(c, d) <=> (ChordSpellings(c) = ChordSpellings(d))
    /\ (op = "Chord" /\ chord # None) =>
          \A b \in Buildable :
              ChordEq(b[2], chord.val[1]) <=> (b[1] = Spellings(args[1]))

\* the Chord just built from (Bb, A#) is named otherwise than the registered
\* chord of the same notes, and lies within a registered 3-note chord
C14_Witness ==
    /\ op = "Chord"
    /\ chord # None
    /\ args[1] = << <<"B", "b">>, <<"a", "#">> >>
    /\ \E i \in 1..Len(chords) :
          /\ chords[i].notes = chord.val[1].notes
          /\ chords[i].chord_name # chord.val[1].chord_name
    /\ \E i \in 1..Len(chords) :
          /\ Len(chords[i].notes) = 3
          /\ ChordSpellings(chord.val[1]) \subseteq ChordSpellings(chords[i])

\* C15: construction succeeds when the note strings are pairwise distinct and
\* the chord name is none of them, also when the name is longer and begins with
\* a note's letter; it fails when the name is one of the note strings.
C15_ConstructionOutcome ==
    op = "Chord" =>
        LET distinct == \A i, j \in 1..Len(args[1]) :
                            i # j => Capitalize(args[1][i]) # Capitalize(args[1][j])
            named    == args[2] \in Spellings(args[1])
        IN  /\ (distinct /\ ~named) =>
                  /\ err = "none"
                  /\ chord # None
                  /\ chord.val[1].chord_name = args[2]
                  /\ ChordSpellings(chord.val[1]) = Spellings(args[1])
            /\ named => (err = "DuplicateNoteNamesException" /\ chord = None)

\* the Chord of A, Bb and A# named Am has just been built
C15_Witness ==
    /\ op = "Chord"
    /\ err = "none"
    /\ args = << << <<"A">>, <<"B", "b">>, <<"a", "#">> >>, <<"A", "m">> >>
    /\ chord # None

\* C17: every registered chord stays registered, and get called with its notes
\* in any order returns it; no query is matched by two registered chords.
C17_RegisteredStaysRetrievable ==
    /\ [][\A i \in 1..Len(chords) : i <= Len(chords') /\ chords'[i] = chords[i]]_vars
    /\ [](/\ \A i \in 1..Len(chords) : \A p \in Rearranged(chords[i].notes) :
                ChordsGet(chords, p) = [kind |-> "Chord", val |-> << chords[i] >>]
          /\ \A q \in NoteArgs :
                Cardinality({i \in 1..Len(chords) : Matches(chords[i], QueryNotes[q])}) <= 1)

\* get has just returned the first registered chord from a registry to which
\* a chord was added later
C17_Witness ==
    /\ op = "Chords.get"
    /\ Len(chords) >= 2
    /\ ret = [kind |-> "Chord", val |-> << chords[1] >>]

\* the pitch indexes of a chord's notes, as a set
ChordPitches(c) == {get_index(c.notes[i]) : i \in 1..Len(c.notes)}

\* C18: add raises ChordOverlapException exactly when a registered chord has
\* the new chord's set of note strings; a respelling of a registered chord, of
\* the same pitches, is accepted and both stay registered.
C18_OverlapIsBySpelling ==
    [][op' = "Chords.add" =>
        LET same == \E i \in 1..Len(chords) :
                        ChordSpellings(chords[i]) = ChordSpellings(chord.val[1])
        IN  /\ (err' = "ChordOverlapException") <=> same
            /\ ~same => chords' = chords \o << chord.val[1] >>]_vars

\* the chord just added respells a registered chord: the same pitches, other
\* note strings
C18_Witness ==
    /\ op = "Chords.add"
    /\ err = "none"
    /\ Len(chords) >= 2
    /\ \E i \in 1..(Len(chords) - 1) :
          /\ ChordPitches(chords[i]) = ChordPitches(chords[Len(chords)])
          /\ Len(chords[i].notes) = Len(chords[Len(chords)].notes)
          /\ ChordSpellings(chords[i]) # ChordSpellings(chords[Len(chords)])

----------------------------------------------------------------------------
(* Note: the claims. *)

\* the position of the letter of a raw note string in the alphabet, from 0
LetterPosition(raw) == (CHOOSE k \in 1..Len(ascii_uppercase) : ascii_uppercase[k] = raw[1]) - 1

\* twice position(letter) + delta(alteration), with twice 26 added when negative
ExpectedIndex(raw) ==
    LET delta == IF Len(raw) = 1 THEN 0 ELSE IF raw[2] = "#" THEN 1 ELSE -1
        sum   == 2 * LetterPosition(raw) + delta
    IN  IF sum < 0 THEN sum + 2 * Len(ascii_uppercase) ELSE sum

\* C12: for every letter L, the notes L# and (L+1 mod 26)b have the same pitch
\* index and are equal in both directions, Z# and Ab included.
C12_EnharmonicIdentity ==
    \A k \in 1..Len(ascii_uppercase) :
        LET sharp == <<ascii_uppercase[k], "#">>
            flat  == <<ascii_uppercase[(k % Len(ascii_uppercase)) + 1], "b">>
        IN  (args = <<sharp, flat>> \/ args = <<flat, sharp>>) =>
                /\ op = "Note.__eq__" => ret.val[1] = TRUE
                /\ op = "Note.get_index" => ret.val[1] = ret.val[2]

\* Note('Ab') == Note('Z#') has just returned True
C12_Witness ==
    /\ op = "Note.__eq__"
    /\ args = << <<"A", "b">>, <<"Z", "#">> >>
    /\ ret.val[1] = TRUE

\* C13: get_index is position(letter) + delta(alteration), with 26 added when
\* that is negative, and lies in [0, 26): in half steps, an integer in 0..51.
C13_IndexFormulaAndRange ==
    op = "Note.get_index" =>
        \A k \in 1..2 : /\ ret.val[k] = ExpectedIndex(args[k])
                         /\ ret.val[k] \in 0..(2 * Len(ascii_uppercase) - 1)

\* get_index of Ab has just returned 25.5 (51 half steps), the wrapped value
C13_Witness ==
    /\ op = "Note.get_index"
    /\ args[1] = <<"A", "b">>
    /\ ret.val[1] = 2 * Len(ascii_uppercase) - 1

\* C19: Note equality is reflexive, symmetric and transitive and holds exactly
\* when the pitch indexes are equal; the stored sharpness is always empty.
C19_EqIsEquivalence ==
    LET x == Note(args[1])
        y == Note(args[2])
    IN  /\ x.sharpness = <<>> /\ y.sharpness = <<>>
        /\ NoteEq(x, x)
        /\ NoteEq(x, y) => NoteEq(y, x)
        /\ \A r \in AllNoteInputs :
              (NoteEq(x, y) /\ NoteEq(y, Note(r))) => NoteEq(x, Note(r))
        /\ NoteEq(x, y) <=> (get_index(x) = get_index(y))
        /\ op = "Note.__eq__" => (ret.val[1] <=> (ExpectedIndex(args[1]) = ExpectedIndex(args[2])))

\* two differently spelled notes have just compared equal
C19_Witness ==
    /\ op = "Note.__eq__"
    /\ args[1] # args[2]
    /\ ret.val[1] = TRUE

====
